---- MODULE Spec2Model ----
(***************************************************************************)
(* A model of the two dashboards of the repository:                        *)
(*   - src/vibes_dashboard.py: calculate_vibes, the two scrapers it calls, *)
(*     and the update_dashboard callback with its vibes_history_data store;*)
(*   - src/portfolio_simulator2.py: the update_projection callback.        *)
(*                                                                         *)
(* Python floats are modelled as exact rationals <<n, d>> in lowest terms  *)
(* with d > 0, plus the one value NaN == <<0, 0>>.  Arithmetic propagates  *)
(* NaN and every comparison with NaN is false, as in IEEE 754.             *)
(***************************************************************************)
EXTENDS Integers, Sequences, FiniteSets, TLC

VARIABLES
    vibes_history_data, \* ticker -> list of <<date, vibes_score>>
    calls,              \* ticker -> number of update_dashboard calls that returned a result
    req,                \* the inputs of the last callback: ticker and provider responses
    ret,                \* what the last callback produced
    sig_in,             \* a score handed to the signal expression
    sig_out,            \* the signal it gave
    proj                \* update_projection: its arguments, locals and position

vars == <<vibes_history_data, calls, req, ret, sig_in, sig_out, proj>>

----------------------------------------------------------------------------
(* Numbers *)

NaN == <<0, 0>>

IsNaN(x) == x[2] = 0

Abs(n) == IF n < 0 THEN -n ELSE n

RECURSIVE GCD(_, _)
GCD(a, b) == IF b = 0 THEN a ELSE GCD(b, a % b)

\* n/d in lowest terms, d # 0
Rat(n, d) ==
    LET g == GCD(Abs(n), Abs(d))
        s == IF d < 0 THEN -1 ELSE 1
    IN  <<(s * n) \div g, (s * d) \div g>>

Num(n) == <<n, 1>>

\* sums and products cancel common factors before they multiply, so that
\* the intermediate integers stay small
Add(x, y) ==
    IF IsNaN(x) \/ IsNaN(y) THEN NaN
    ELSE LET g == GCD(x[2], y[2])
         IN  Rat(x[1] * (y[2] \div g) + y[1] * (x[2] \div g), (x[2] \div g) * y[2])

Neg(x) == <<-x[1], x[2]>>

Sub(x, y) == Add(x, Neg(y))

Mul(x, y) ==
    IF IsNaN(x) \/ IsNaN(y) THEN NaN
    ELSE LET g1 == GCD(Abs(x[1]), y[2])
             g2 == GCD(Abs(y[1]), x[2])
         IN  Rat((x[1] \div g1) * (y[1] \div g2), (x[2] \div g2) * (y[2] \div g1))

\* x / y; the divisors of the program are literals, a mean the code has
\* tested to be non-zero, or a closing price (positive in every input drawn)
Div(x, y) ==
    IF IsNaN(x) \/ IsNaN(y) \/ y[1] = 0 THEN NaN
    ELSE Mul(x, Rat(y[2], y[1]))

Lt(x, y) == ~IsNaN(x) /\ ~IsNaN(y) /\ x[1] * y[2] < y[1] * x[2]

Gt(x, y) == Lt(y, x)

Le(x, y) == ~IsNaN(x) /\ ~IsNaN(y) /\ x[1] * y[2] <= y[1] * x[2]

\* Python's min(a, b) and max(a, b): b only when it compares strictly
\* below (above) a, so a NaN first argument is returned as it is
PyMin(a, b) == IF Lt(b, a) THEN b ELSE a

PyMax(a, b) == IF Gt(b, a) THEN b ELSE a

\* bool(x) of a float: only zero is false (NaN is true)
Truthy(x) == x # Num(0)

RECURSIVE SumSeq(_)
SumSeq(s) == IF s = <<>> THEN Num(0) ELSE Add(Head(s), SumSeq(Tail(s)))

\* pandas Series.mean(): NaN entries are skipped, NaN when nothing is left
Mean(s) ==
    LET kept == SelectSeq(s, LAMBDA v : ~IsNaN(v))
    IN  IF kept = <<>> THEN NaN ELSE Div(SumSeq(kept), Num(Len(kept)))

\* s[-k:], the last k entries (all of s when it is shorter)
LastK(s, k) == IF Len(s) <= k THEN s ELSE SubSeq(s, Len(s) - k + 1, Len(s))

----------------------------------------------------------------------------
(* vibes_dashboard.py: the scrapers *)

Half == Rat(1, 2)

\* get_breadth_factor.  b is what the Finviz request led to: kind "raise"
\* (the request or the parse threw), "notfound" (no count-text cell, which
\* raises inside the try), "malformed" (the cell's text is no "Total: n"),
\* or "count" with the number parsed.
get_breadth_factor(b) ==
    IF b.kind = "count"
    THEN LET breadth_pct == Rat(b.count, 500)
         IN  PyMin(PyMax(breadth_pct, Num(0)), Num(1))
    ELSE Half

\* reddit_score of get_sentiment_scores.  r.kind is "raise", "nomentions"
\* (select_one found nothing) or "mentions" with the count parsed.
reddit_score_of(r) ==
    IF r.kind = "mentions" THEN PyMin(Num(1), Rat(r.n, 1000)) ELSE Half

\* the number of headlines whose field (up or down) is true
RECURSIVE CountIf(_, _)
CountIf(heads, field) ==
    IF heads = <<>> THEN 0
    ELSE (IF Head(heads)[field] THEN 1 ELSE 0) + CountIf(Tail(heads), field)

\* sentiment_score of get_sentiment_scores.  f.kind is "raise", "notable"
\* (no news table) or "news" with one record per table row: anchor (the row
\* has an <a>), up ("upgrade" or "beats" in the headline), down ("downgrade"
\* or "misses" in it).  A row without an anchor raises inside the try.
finviz_score_of(f) ==
    IF f.kind = "news" /\ \A i \in 1..Len(f.heads) : f.heads[i].anchor
    THEN LET pos == CountIf(f.heads, "up")
             neg == CountIf(f.heads, "down")
         IN  Rat(pos, pos + neg + 1)
    ELSE Half

get_sentiment_scores(r, f) == <<reddit_score_of(r), finviz_score_of(f)>>

----------------------------------------------------------------------------
(* vibes_dashboard.py: calculate_vibes *)

None == [none |-> TRUE]

NoError == "None"

NoDataError == "No historical data found"

VolWindow == 20

RollWindow == 5

Column(hist, name) == [i \in 1..Len(hist) |-> hist[i][name]]

\* a plausible slip: the window ends before the last day
avg_vol_prior(hist) ==
    LET Volume == Column(hist, "Volume")
    IN  Mean(LastK(SubSeq(Volume, 1, Len(Volume) - 1), VolWindow))

\* hist['Volume'][-20:].mean(), then the ratio and the factor
avg_vol_of(hist) == Mean(LastK(Column(hist, "Volume"), VolWindow))

vol_factor_of(hist) ==
    LET avg_vol   == avg_vol_of(hist)
        vol_score == IF Truthy(avg_vol)
                     THEN Div(hist[Len(hist)].Volume, avg_vol)
                     ELSE Num(0)
    IN  PyMin(Div(vol_score, Num(2)), Num(1))

\* rolling(5).mean().iloc[-1]: NaN unless the window holds 5 numbers
RollingMeanLast(s, w) ==
    LET window == LastK(s, w)
    IN  IF Len(window) < w \/ \E i \in 1..Len(window) : IsNaN(window[i])
        THEN NaN
        ELSE Mean(window)

hl_range_of(hist) ==
    [i \in 1..Len(hist) |->
        Div(Sub(hist[i].High, hist[i].Low), hist[i].Close)]

\* the try block of the volatility factor: the mean of the implied
\* volatilities left by dropna, times 100; "raise" when option_chain() threw
\* or the mean is NaN
iv_score_try(options) ==
    IF options.kind = "raise" THEN NaN
    ELSE Mul(Mean(options.calls \o options.puts), Num(100))

iv_score_of(hist, options) ==
    LET tried == iv_score_try(options)
    IN  IF ~IsNaN(tried) THEN tried
        ELSE Mul(RollingMeanLast(hl_range_of(hist), RollWindow), Num(100))

iv_factor_of(hist, options) == PyMin(Div(iv_score_of(hist, options), Num(5)), Num(1))

\* cal.kind: "raise" (stock.calendar threw), "dict" (not a DataFrame),
\* "norow" (no 'Earnings Date' row), "nat" (a null date), "date" with day
earnings_factor_of(cal, today) ==
    IF cal.kind = "date"
    THEN LET days_to_earnings == cal.day - today
             m == 10 - Abs(days_to_earnings)
         IN  Rat(IF m > 0 THEN m ELSE 0, 10)
    ELSE Half

sentiment_factor_of(scores) == Div(Add(scores[1], scores[2]), Num(2))

\* a plausible slip: the sentiment factor is left out of the mean
vibes_of_four(vol_factor, iv_factor, earnings_factor, breadth_factor, sentiment_factor) ==
    Div(Add(Add(Add(vol_factor, iv_factor), earnings_factor), breadth_factor), Num(4))

vibes_of(vol_factor, iv_factor, earnings_factor, breadth_factor, sentiment_factor) ==
    Div(Add(Add(Add(Add(vol_factor, iv_factor), earnings_factor),
                breadth_factor), sentiment_factor), Num(5))

\* a plausible slip: the thresholds taken inclusively
signal_of_inclusive(vibes) ==
    IF Le(Rat(65, 100), vibes) THEN "Bullish"
    ELSE IF Le(Rat(4, 10), vibes) THEN "Neutral"
    ELSE "Bearish"

\* "Bullish" if vibes > 0.65 else "Neutral" if vibes > 0.4 else "Bearish"
signal_of(vibes) ==
    IF Gt(vibes, Rat(65, 100)) THEN "Bullish"
    ELSE IF Gt(vibes, Rat(4, 10)) THEN "Neutral"
    ELSE "Bearish"

\* ticker.upper()
upper(ticker) ==
    CASE ticker = "nvda" -> "NVDA"
      [] ticker = "amd"  -> "AMD"
      [] OTHER -> ticker

FactorNames == <<"Volume", "Volatility", "Earnings", "Breadth", "Sentiment">>

\* a plausible slip: a history too short for the rolling window counts as empty
empty_or_short(hist) == Len(hist) <= RollWindow

\* hist.empty
empty(hist) == hist = <<>>

\* calculate_vibes(ticker) with the providers' responses as arguments;
\* returns <<result, error>>
calculate_vibes(ticker, hist, options, cal, breadth, reddit, finviz) ==
    IF empty(hist) THEN <<None, NoDataError>>
    ELSE
    LET today            == hist[Len(hist)].Date
        vol_factor       == vol_factor_of(hist)
        iv_factor        == iv_factor_of(hist, options)
        earnings_factor  == earnings_factor_of(cal, today)
        breadth_factor   == get_breadth_factor(breadth)
        sentiment_factor == sentiment_factor_of(get_sentiment_scores(reddit, finviz))
        vibes            == vibes_of(vol_factor, iv_factor, earnings_factor,
                                     breadth_factor, sentiment_factor)
    IN  << [ ticker      |-> upper(ticker),
             date        |-> today,
             factors     |-> [ Volume     |-> vol_factor,
                               Volatility |-> iv_factor,
                               Earnings   |-> earnings_factor,
                               Breadth    |-> breadth_factor,
                               Sentiment  |-> sentiment_factor ],
             vibes_score |-> vibes,
             signal      |-> signal_of(vibes) ],
           NoError >>

----------------------------------------------------------------------------
(* vibes_dashboard.py: update_dashboard and the history store *)

Keys == {"NVDA", "AMD"}

EmptyFigure == [data |-> <<>>]

NoRequest == [none |-> TRUE]

NotCalled == [out |-> <<>>, result |-> None, error |-> NoError]

\* go.Bar over the factors, in the order the dict was built
bar_fig_of(result) ==
    [data |-> << [x |-> FactorNames,
                  y |-> [i \in 1..Len(FactorNames) |-> result.factors[FactorNames[i]]]] >>]

\* go.Scatter over the ticker's stored history
hist_fig_of(entries) ==
    [data |-> << [x |-> [i \in 1..Len(entries) |-> entries[i][1]],
                  y |-> [i \in 1..Len(entries) |-> entries[i][2]]] >>]

\* str(result["date"])
str_of(date) == ToString(date)

\* a plausible slip: the list is started afresh on every call
SaveHistoryReset(store, ticker, today_str, vibes_score) ==
    [store EXCEPT ![ticker] = <<<<today_str, vibes_score>>>>]

\* the store after "if ticker not in ...: ... = []" and the append
SaveHistory(store, ticker, today_str, vibes_score) ==
    [store EXCEPT ![ticker] = Append(@, <<today_str, vibes_score>>)]

\* update_dashboard(r.ticker), the providers answering as r says.  A ticker
\* that is not yet a key of the dict is modelled by the empty list.
UpdateDashboard(r) ==
    LET cv     == calculate_vibes(r.ticker, r.hist, r.options, r.cal,
                                  r.breadth, r.reddit, r.finviz)
        result == cv[1]
        error  == cv[2]
    IN  /\ req' = r
        /\ IF error # NoError
           THEN /\ ret' = [out    |-> <<[text |-> error], EmptyFigure, EmptyFigure>>,
                           result |-> result,
                           error  |-> error]
                /\ UNCHANGED <<vibes_history_data, calls>>
           ELSE LET today_str == str_of(result.date)
                    store     == SaveHistory(vibes_history_data, result.ticker,
                                             today_str, result.vibes_score)
                IN  /\ vibes_history_data' = store
                    /\ calls' = [calls EXCEPT ![result.ticker] = @ + 1]
                    /\ ret' = [out    |-> << [text   |-> "VIBES Score",
                                              score  |-> result.vibes_score,
                                              signal |-> result.signal,
                                              items  |-> result.factors],
                                             bar_fig_of(result),
                                             hist_fig_of(store[result.ticker]) >>,
                               result |-> result,
                               error  |-> error]
        /\ UNCHANGED <<sig_in, sig_out, proj>>

----------------------------------------------------------------------------
(* The providers' answers the model draws *)

MaxRows == 22

MaxCalls == 3

Priced(v, h, l, c) == [Volume |-> Num(v), High |-> Num(h), Low |-> Num(l), Close |-> Num(c)]

\* a day the provider lists without prices or trades
NoDataRow == [Volume |-> Num(0), High |-> NaN, Low |-> NaN, Close |-> NaN]

FlatRow == Priced(0, 10, 10, 10)

NarrowRow == Priced(100, 101, 100, 100)

SpikeRow == Priced(100000, 12, 8, 10)

OldRow == Priced(900, 12, 8, 10)

BaseRows == {FlatRow, NarrowRow}

LastRows == {FlatRow, NarrowRow, NoDataRow, SpikeRow}

\* n trading days, dated 1..n: the last one is `last`, the VolWindow - 1
\* before it are `base`, anything older is OldRow
HistOf(n, base, last) ==
    [i \in 1..n |->
        IF i = n THEN [Date |-> i] @@ last
        ELSE IF i > n - VolWindow THEN [Date |-> i] @@ base
        ELSE [Date |-> i] @@ OldRow]

\* lengths around the two windows' edges
HistLens == {0, 1, RollWindow - 1, RollWindow, VolWindow, VolWindow + 1, MaxRows}

Hists == {HistOf(n, b, l) : n \in HistLens, b \in BaseRows, l \in LastRows}

Chain(calls_iv, puts_iv) == [kind |-> "chain", calls |-> calls_iv, puts |-> puts_iv]

NoChain == [kind |-> "raise", calls |-> <<>>, puts |-> <<>>]

OptionAnswers ==
    { NoChain,
      Chain(<<>>, <<NaN>>),
      Chain(<<Rat(-1, 100)>>, <<>>),
      Chain(<<Rat(2, 100)>>, <<Rat(4, 100), NaN>>),
      Chain(<<Rat(1, 2)>>, <<Rat(3, 10)>>) }

NoCalendar == [kind |-> "raise", day |-> 0]

CalendarAnswers ==
    { NoCalendar, [kind |-> "dict", day |-> 0], [kind |-> "date", day |-> 25] }

NoBreadth == [kind |-> "raise", count |-> 0]

BreadthAnswers ==
    { NoBreadth, [kind |-> "count", count |-> 400], [kind |-> "count", count |-> 600] }

NoReddit == [kind |-> "raise", n |-> 0]

NoFinviz == [kind |-> "raise", heads |-> <<>>]

Headline(a, u, d) == [anchor |-> a, up |-> u, down |-> d]

\* the two scrapes of get_sentiment_scores, as <<reddit, finviz>>
SentimentAnswers ==
    { <<NoReddit, NoFinviz>>,
      <<[kind |-> "mentions", n |-> 200],
        [kind |-> "news", heads |-> <<Headline(TRUE, TRUE, FALSE), Headline(TRUE, TRUE, TRUE),
                                      Headline(TRUE, TRUE, FALSE), Headline(TRUE, FALSE, FALSE)>>]>>,
      <<[kind |-> "mentions", n |-> 5000],
        [kind |-> "news", heads |-> <<Headline(TRUE, FALSE, TRUE)>>]>>,
      <<[kind |-> "mentions", n |-> 200],
        [kind |-> "news", heads |-> <<Headline(TRUE, TRUE, FALSE), Headline(FALSE, FALSE, FALSE)>>]>> }

Request(t, h, o, c, b, r, f) ==
    [ticker |-> t, hist |-> h, options |-> o, cal |-> c,
     breadth |-> b, reddit |-> r, finviz |-> f]

\* one call of the scorer, every provider answering in every way above
ScoreRequests ==
    { Request("nvda", h, o, c, b, sn[1], sn[2]) :
        h \in Hists, o \in OptionAnswers, c \in CalendarAnswers,
        b \in BreadthAnswers, sn \in SentimentAnswers }

\* the calls of a session: three spellings of two tickers, on two days, the
\* options chain there or not, every other provider failing
SessionRequests ==
    { Request(t, h, o, NoCalendar, NoBreadth, NoReddit, NoFinviz) :
        t \in {"NVDA", "nvda", "amd"},
        h \in {<<>>, HistOf(RollWindow, NarrowRow, NarrowRow),
               HistOf(RollWindow + 1, NarrowRow, SpikeRow)},
        o \in {NoChain, Chain(<<Rat(2, 100)>>, <<Rat(4, 100), NaN>>)} }

----------------------------------------------------------------------------
(* portfolio_simulator2.py: update_projection *)

MaxYears == 3

\* round(x, 2): the nearest multiple of 1/100, a tie going to the even one
Round2(x) ==
    LET w     == x[1] \div x[2]
        r     == x[1] % x[2]
        c     == (100 * r) \div x[2]
        rem   == (100 * r) % x[2]
        cents == 100 * w + c
        up    == 2 * rem > x[2] \/ (2 * rem = x[2] /\ cents % 2 = 1)
    IN  Rat(IF up THEN cents + 1 ELSE cents, 100)

\* the values the loop works on in one pass: what it derives from the state
annual_contribution_of(p) == Mul(p.monthly_investment, Num(12))

\* a plausible slip: the sign of the tax term
after_tax_bonus_negated(p) == Mul(Mul(p.salary, p.bonus_pct), Sub(p.bonus_tax, Num(1)))

after_tax_bonus_of(p) == Mul(Mul(p.salary, p.bonus_pct), Sub(Num(1), p.bonus_tax))

total_invested_of(p) == Add(annual_contribution_of(p), after_tax_bonus_of(p))

\* a plausible slip: the value is rounded before it is carried on
portfolio_value_rounded(p) ==
    Round2(Mul(Add(p.portfolio_value, total_invested_of(p)), Add(Num(1), p.growth_rate)))

portfolio_value_of(p) ==
    Mul(Add(p.portfolio_value, total_invested_of(p)), Add(Num(1), p.growth_rate))

\* the dict appended to records
RecordOf(p) ==
    [ Year                |-> p.year,
      Base_Salary         |-> Round2(p.salary),
      Monthly_Investment  |-> Round2(p.monthly_investment),
      Annual_Contribution |-> Round2(annual_contribution_of(p)),
      After_Tax_Bonus     |-> Round2(after_tax_bonus_of(p)),
      Total_Invested      |-> Round2(total_invested_of(p)),
      Portfolio_Value     |-> Round2(portfolio_value_of(p)) ]

\* the two updates that end a pass
next_salary(p) == Mul(p.salary, Add(Num(1), p.raise_pct))

next_monthly_investment(p) ==
    Add(p.monthly_investment, Div(Mul(p.base_salary, p.raise_pct), Num(12)))

\* the locals on entry to update_projection
ProjStart(base_salary, bonus_pct, bonus_tax, raise_pct, monthly_investment, growth_rate, years) ==
    [ pc                  |-> "loop",
      base_salary         |-> base_salary,
      bonus_pct           |-> bonus_pct,
      bonus_tax           |-> bonus_tax,
      raise_pct           |-> raise_pct,
      monthly_investment0 |-> monthly_investment,
      growth_rate         |-> growth_rate,
      years               |-> years,
      salary              |-> base_salary,
      monthly_investment  |-> monthly_investment,
      portfolio_value     |-> Num(0),
      records             |-> <<>>,
      year                |-> 1 ]

\* one pass of "for year in range(1, years + 1)"
LoopBody ==
    /\ proj.pc = "loop"
    /\ proj.year <= proj.years
    /\ proj' = [proj EXCEPT
                  !.portfolio_value    = portfolio_value_of(proj),
                  !.records            = Append(@, RecordOf(proj)),
                  !.salary             = next_salary(proj),
                  !.monthly_investment = next_monthly_investment(proj),
                  !.year               = @ + 1]
    /\ UNCHANGED <<vibes_history_data, calls, req, ret, sig_in, sig_out>>

\* the range is exhausted: df = pd.DataFrame(records)
LoopExit ==
    /\ proj.pc = "loop"
    /\ proj.year > proj.years
    /\ proj' = [proj EXCEPT !.pc = "chart"]
    /\ UNCHANGED <<vibes_history_data, calls, req, ret, sig_in, sig_out>>

\* the columns of pd.DataFrame(records): the keys of the dicts, none when
\* the list is empty
ColumnsOf(records) == IF records = <<>> THEN {} ELSE DOMAIN records[1]

\* px.line(df, x='Year', y='Portfolio Value') raises ValueError when a named
\* column is not in the frame; otherwise the table is built and both returned
ChartRaises(records) == ~({"Year", "Portfolio_Value"} \subseteq ColumnsOf(records))

Chart ==
    /\ proj.pc = "chart"
    /\ proj' = [proj EXCEPT !.pc = IF ChartRaises(proj.records) THEN "raised" ELSE "returned"]
    /\ UNCHANGED <<vibes_history_data, calls, req, ret, sig_in, sig_out>>

\* the arguments drawn: a grid of small values, and the documented example
ProjGrid ==
    { ProjStart(Num(s), b, t, r, Num(m), g, y) :
        s \in {-1200, 0, 1200}, b \in {Num(0), Rat(2, 5)}, t \in {Num(0), Rat(35, 100)},
        r \in {Num(0), Rat(1, 10)}, m \in {-100, 0, 100},
        g \in {Num(0), Rat(1, 4)}, y \in -1..MaxYears }

ProjExample ==
    ProjStart(Num(250000), Rat(40, 100), Rat(35, 100), Rat(4, 100), Num(2000),
              Rat(15, 100), 1)

ProjInputs == ProjGrid \cup {ProjExample}

----------------------------------------------------------------------------
(* The signal expression on its own *)

ScoreGrid == 10000

Scores == {Rat(k, ScoreGrid) : k \in 0..ScoreGrid}

Signal ==
    /\ sig_out = ""
    /\ sig_out' = signal_of(sig_in)
    /\ UNCHANGED <<vibes_history_data, calls, req, ret, sig_in, proj>>

----------------------------------------------------------------------------
(* Specifications *)

IdleProj == [pc |-> "idle"]

Stored == [t \in Keys |-> Len(vibes_history_data[t])]

\* a session of the dashboard: update_dashboard fires once per input change
Init ==
    /\ vibes_history_data = [t \in Keys |-> <<>>]
    /\ calls = [t \in Keys |-> 0]
    /\ req = NoRequest
    /\ ret = NotCalled
    /\ sig_in = NaN
    /\ sig_out = ""
    /\ proj = IdleProj

Callback ==
    /\ Stored["NVDA"] + Stored["AMD"] < MaxCalls
    /\ \E r \in SessionRequests : UpdateDashboard(r)

Next == Callback

Spec == Init /\ [][Next]_vars

\* one call of update_dashboard on an empty store, over every answer drawn
InitScore ==
    /\ vibes_history_data = [t \in Keys |-> <<>>]
    /\ calls = [t \in Keys |-> 0]
    /\ req \in ScoreRequests
    /\ ret = NotCalled
    /\ sig_in = NaN
    /\ sig_out = ""
    /\ proj = IdleProj

Score ==
    /\ ret = NotCalled
    /\ UpdateDashboard(req)

NextScore == Score

SpecScore == InitScore /\ [][NextScore]_vars

\* the signal expression applied to one score of the grid
InitSignal ==
    /\ vibes_history_data = [t \in Keys |-> <<>>]
    /\ calls = [t \in Keys |-> 0]
    /\ req = NoRequest
    /\ ret = NotCalled
    /\ sig_in \in Scores
    /\ sig_out = ""
    /\ proj = IdleProj

NextSignal == Signal

SpecSignal == InitSignal /\ [][NextSignal]_vars

\* one call of update_projection
InitProj ==
    /\ vibes_history_data = [t \in Keys |-> <<>>]
    /\ calls = [t \in Keys |-> 0]
    /\ req = NoRequest
    /\ ret = NotCalled
    /\ sig_in = NaN
    /\ sig_out = ""
    /\ proj \in ProjInputs

NextProj == LoopBody \/ LoopExit \/ Chart

SpecProj == InitProj /\ [][NextProj]_vars

----------------------------------------------------------------------------
(* Properties of the VIBES scorer, under SpecScore *)

Returned == ret # NotCalled /\ ret.result # None

InUnit(x) == Le(Num(0), x) /\ Le(x, Num(1))

FactorOf(name) == ret.result.factors[name]

\* C1: every factor of a returned result, and its vibes_score, lies in [0,1],
\* whatever the providers answered.
C1_FactorsInUnit ==
    Returned =>
        /\ \A i \in 1..Len(FactorNames) : InUnit(FactorOf(FactorNames[i]))
        /\ InUnit(ret.result.vibes_score)

\* the price provider has nothing: no rows, or rows without prices or trades
NoPriceData(hist) ==
    \A i \in 1..Len(hist) :
        hist[i].Volume = Num(0) /\ IsNaN(hist[i].High) /\ IsNaN(hist[i].Low)
                                /\ IsNaN(hist[i].Close)

AllProvidersFail(r) ==
    /\ NoPriceData(r.hist)
    /\ r.options.kind = "raise"
    /\ r.cal.kind = "raise"
    /\ r.breadth.kind = "raise"
    /\ r.reddit.kind = "raise"
    /\ r.finviz.kind = "raise"

\* C2: when all five providers fail, a result is still returned, with the
\* factors 0, 0, 0.5, 0.5, 0.5, vibes_score 0.3 and the signal Bearish.
C2_AllFailFallbacks ==
    (ret # NotCalled /\ AllProvidersFail(req)) =>
        /\ ret.result # None
        /\ ret.result.factors = [ Volume     |-> Num(0),
                                  Volatility |-> Num(0),
                                  Earnings   |-> Half,
                                  Breadth    |-> Half,
                                  Sentiment  |-> Half ]
        /\ ret.result.vibes_score = Rat(3, 10)
        /\ ret.result.signal = "Bearish"

\* the volumes of rows lo..hi of the history, summed as integers
RECURSIVE VolumeSum(_, _, _)
VolumeSum(hist, lo, hi) ==
    IF lo > hi THEN 0 ELSE hist[hi].Volume[1] + VolumeSum(hist, lo, hi - 1)

Max(a, b) == IF a >= b THEN a ELSE b

\* (last / (sum / count)) / 2 clamped to [0,1]; 0 when the mean is zero or
\* there is nothing to average
ClampedHalfRatio(last, sum, count) ==
    IF count = 0 \/ sum = 0 THEN Num(0)
    ELSE IF last * count >= 2 * sum THEN Num(1)
    ELSE Rat(last * count, 2 * sum)

\* C8 as amended: the Volume factor is the last day's volume over the mean
\* volume of the last 20 rows of the history, the last day included (all
\* rows when there are fewer), halved and clamped to [0,1]; 0 when that mean
\* is zero.
C8_VolumeOverLastWindow ==
    Returned =>
        LET n  == Len(req.hist)
            lo == Max(1, n - VolWindow + 1)
        IN  FactorOf("Volume") =
                ClampedHalfRatio(req.hist[n].Volume[1], VolumeSum(req.hist, lo, n),
                                 n - lo + 1)

\* C8 as claimed: the mean is taken over the 20 days before the last day
C8_VolumeOverPriorWindow ==
    Returned =>
        LET n  == Len(req.hist)
            lo == Max(1, n - VolWindow)
        IN  FactorOf("Volume") =
                ClampedHalfRatio(req.hist[n].Volume[1], VolumeSum(req.hist, lo, n - 1),
                                 n - lo)

\* a history longer than the window, whose factor is not clamped away
C8_Witness ==
    /\ Returned
    /\ Len(req.hist) > VolWindow
    /\ Lt(Num(0), FactorOf("Volume"))
    /\ Lt(FactorOf("Volume"), Num(1))

\* C10: vibes_score is the sum of the five returned factors over 5, the
\* Sentiment factor is the mean of the two sentiment sub-scores, and the
\* entry appended to the ticker's history carries that same vibes_score.
C10_ScoreIsMeanOfFactors ==
    Returned =>
        LET f       == ret.result.factors
            entries == vibes_history_data[ret.result.ticker]
        IN  /\ DOMAIN f = {FactorNames[i] : i \in 1..Len(FactorNames)}
            /\ ret.result.vibes_score =
                   Div(SumSeq(<<f.Volume, f.Volatility, f.Earnings, f.Breadth, f.Sentiment>>),
                       Num(5))
            /\ f.Sentiment =
                   Div(Add(reddit_score_of(req.reddit), finviz_score_of(req.finviz)), Num(2))
            /\ entries # <<>>
            /\ entries[Len(entries)] = <<str_of(ret.result.date), ret.result.vibes_score>>

\* a result whose two sentiment sub-scores differ and whose factors are not
\* all equal
C10_Witness ==
    /\ Returned
    /\ reddit_score_of(req.reddit) # finviz_score_of(req.finviz)
    /\ FactorOf("Sentiment") # FactorOf("Breadth")
    /\ FactorOf("Volume") # FactorOf("Volatility")
    /\ InUnit(ret.result.vibes_score)
    /\ Len(vibes_history_data[ret.result.ticker]) = 1

----------------------------------------------------------------------------
(* Properties of the dashboard session, under Spec *)

\* C3: a call whose price history is empty returns the "no data" error text
\* with two empty figures, computes no result and leaves the store as it
\* was; a call whose price history has rows always returns a result.
C3_NoDataOnlyWhenEmpty ==
    [][ /\ req'.hist = <<>> =>
              /\ ret'.result = None
              /\ ret'.error = NoDataError
              /\ ret'.out = <<[text |-> NoDataError], EmptyFigure, EmptyFigure>>
              /\ vibes_history_data' = vibes_history_data
        /\ req'.hist # <<>> =>
              /\ ret'.result # None
              /\ ret'.error = NoError ]_vars

\* a failed call after the store has entries
C3_Witness ==
    /\ req # NoRequest
    /\ req.hist = <<>>
    /\ ret.error = NoDataError
    /\ vibes_history_data["NVDA"] # <<>>

\* C4: a call that returns a result for ticker T makes T's list its previous
\* list followed by one (date, vibes_score) entry; every other list, and
\* every list on a failed call, stays as it was; each list is as long as the
\* number of calls that returned a result for its ticker.
C4_HistoryAppendOnly ==
    [][ \A t \in Keys :
          /\ IF ret'.result # None /\ ret'.result.ticker = t
             THEN vibes_history_data'[t] =
                      Append(vibes_history_data[t],
                             <<str_of(ret'.result.date), ret'.result.vibes_score>>)
             ELSE vibes_history_data'[t] = vibes_history_data[t]
          /\ Len(vibes_history_data'[t]) = calls'[t] ]_vars

\* a ticker called under two spellings, with two different entries stored
C4_Witness ==
    /\ Len(vibes_history_data["NVDA"]) >= 2
    /\ vibes_history_data["NVDA"][1] # vibes_history_data["NVDA"][2]
    /\ vibes_history_data["AMD"] # <<>>
    /\ calls["NVDA"] >= 2

----------------------------------------------------------------------------
(* The signal thresholds, under SpecSignal *)

\* C9: Bullish iff score > 0.65, Neutral iff 0.4 < score <= 0.65, Bearish
\* iff score <= 0.4; so 0.65 is Neutral, 0.6501 Bullish, 0.4 Bearish and
\* 0.4001 Neutral.
C9_SignalThresholds ==
    sig_out # "" =>
        LET n == sig_in[1]
            d == sig_in[2]
        IN  /\ sig_out \in {"Bullish", "Neutral", "Bearish"}
            /\ sig_out = "Bullish" <=> 100 * n > 65 * d
            /\ sig_out = "Neutral" <=> (10 * n > 4 * d /\ 100 * n <= 65 * d)
            /\ sig_out = "Bearish" <=> 10 * n <= 4 * d
            /\ sig_in = Rat(6500, 10000) => sig_out = "Neutral"
            /\ sig_in = Rat(6501, 10000) => sig_out = "Bullish"
            /\ sig_in = Rat(4000, 10000) => sig_out = "Bearish"
            /\ sig_in = Rat(4001, 10000) => sig_out = "Neutral"

\* the upper boundary itself
C9_Witness == sig_in = Rat(65, 100) /\ sig_out = "Neutral"

----------------------------------------------------------------------------
(* Properties of the projection, under SpecProj *)

RECURSIVE Pow(_, _)
Pow(x, k) == IF k = 0 THEN Num(1) ELSE Mul(x, Pow(x, k - 1))

RefSalary(p, y) == Mul(p.base_salary, Pow(Add(Num(1), p.raise_pct), y - 1))

RefMonthly(p, y) ==
    Add(p.monthly_investment0,
        Mul(Num(y - 1), Div(Mul(p.base_salary, p.raise_pct), Num(12))))

RefTotal(p, y) ==
    Add(Mul(RefMonthly(p, y), Num(12)),
        Mul(Mul(RefSalary(p, y), p.bonus_pct), Sub(Num(1), p.bonus_tax)))

RECURSIVE RefPortfolio(_, _)
RefPortfolio(p, y) ==
    IF y = 0 THEN Num(0)
    ELSE Mul(Add(RefPortfolio(p, y - 1), RefTotal(p, y)), Add(Num(1), p.growth_rate))

Running == proj.pc # "idle"

Finished == proj.pc \in {"returned", "raised"}

\* C5: the row of year y holds the reference recurrence's values, each
\* rounded to 2 decimals, and the state carried into the next pass is the
\* recurrence's unrounded value; the documented example gives 89000.00 and
\* 102350.00.
C5_RowsFollowRecurrence ==
    Running =>
        /\ \A y \in 1..Len(proj.records) :
              LET row == proj.records[y]
              IN  /\ row.Year = y
                  /\ row.Base_Salary = Round2(RefSalary(proj, y))
                  /\ row.Monthly_Investment = Round2(RefMonthly(proj, y))
                  /\ row.Annual_Contribution = Round2(Mul(RefMonthly(proj, y), Num(12)))
                  /\ row.After_Tax_Bonus =
                         Round2(Mul(Mul(RefSalary(proj, y), proj.bonus_pct),
                                    Sub(Num(1), proj.bonus_tax)))
                  /\ row.Total_Invested = Round2(RefTotal(proj, y))
                  /\ row.Portfolio_Value = Round2(RefPortfolio(proj, y))
        /\ proj.portfolio_value = RefPortfolio(proj, Len(proj.records))
        /\ proj.salary = RefSalary(proj, Len(proj.records) + 1)
        /\ proj.monthly_investment = RefMonthly(proj, Len(proj.records) + 1)
        /\ (Finished /\ proj.base_salary = Num(250000)) =>
              /\ proj.records[1].Total_Invested = Num(89000)
              /\ proj.records[1].Portfolio_Value = Num(102350)

\* a run of MaxYears rows whose carried value has more than 2 decimals
C5_Witness ==
    /\ Running
    /\ Len(proj.records) = MaxYears
    /\ proj.raise_pct # Num(0)
    /\ proj.portfolio_value # Round2(proj.portfolio_value)
    /\ proj.records[MaxYears].Portfolio_Value # proj.portfolio_value

RowsNonDecreasing ==
    \A y \in 1..(Len(proj.records) - 1) :
        Le(proj.records[y].Portfolio_Value, proj.records[y + 1].Portfolio_Value)

RatesNonNegative == Le(Num(0), proj.growth_rate) /\ Le(Num(0), proj.raise_pct)

\* C6 as claimed: with non-negative growth and raise rates, portfolio_value
\* never decreases from one row to the next.
C6_Monotone == (Running /\ RatesNonNegative) => RowsNonDecreasing

\* C6 as amended: the same, for inputs whose base_salary, bonus_pct and
\* monthly_investment are non-negative too and whose bonus_tax is at most 1.
C6_MonotoneNonNegativeInputs ==
    ( /\ Running
      /\ RatesNonNegative
      /\ Le(Num(0), proj.base_salary)
      /\ Le(Num(0), proj.bonus_pct)
      /\ Le(Num(0), proj.monthly_investment0)
      /\ Le(proj.bonus_tax, Num(1)) ) => RowsNonDecreasing

\* a run within the amended hypotheses whose value grows
C6_Witness ==
    /\ Running
    /\ Len(proj.records) >= 2
    /\ Lt(Num(0), proj.base_salary)
    /\ Lt(Num(0), proj.bonus_pct)
    /\ Le(Num(0), proj.monthly_investment0)
    /\ Lt(proj.records[1].Portfolio_Value, proj.records[2].Portfolio_Value)

\* C7: with non-negative inputs and years <= 0 the call ends without an
\* error and with no rows; with years >= 1 it yields rows 1..years in order.
C7_RowsAndNoError ==
    ( /\ Finished
      /\ Le(Num(0), proj.base_salary)
      /\ Le(Num(0), proj.monthly_investment0) ) =>
        /\ proj.years <= 0 => (proj.records = <<>> /\ proj.pc = "returned")
        /\ proj.years >= 1 =>
              /\ Len(proj.records) = proj.years
              /\ \A y \in 1..proj.years : proj.records[y].Year = y

====
